---- MODULE Spec2Model ----
(***************************************************************************)
(* Model of the merger-candidate matching engine                           *)
(* (src/utils/matching_engine.py, class MatchingEngine).                   *)
(*                                                                         *)
(* Scores are fixed-point numbers.  An axis score s in [0,1] is the        *)
(* integer s * AxisOne (AxisOne = 120, so 0.2 = 24, 0.5 = 60, 0.7 = 84,    *)
(* 1.0 = 120).  The weights 0.1, 0.2, 0.3 are the integers 1, 2, 3         *)
(* (tenths), so a match score m in [0,1] is the integer m * ScoreOne with  *)
(* ScoreOne = 10 * AxisOne = 1200 (0.3 = 360).                             *)
(*                                                                         *)
(* A Python value is a record [k, n, l]: k is the Python type ("absent"    *)
(* for a key the dict does not have, "none", "num", "str", "list",         *)
(* "dict"), n the number, l the content of a string or list as a sequence  *)
(* of atomic pieces (the comma-separated parts of a markets string, the    *)
(* words of a text, the characters of an amount, the items of a list).     *)
(* An exception is the field err = TRUE of an operator's result.           *)
(***************************************************************************)
EXTENDS Integers, Sequences, FiniteSets, TLC

AxisOne == 120
ScoreOne == 10 * AxisOne

\* ---------------------------------------------------------------------
\* Python values
\* ---------------------------------------------------------------------
Absent == [k |-> "absent", n |-> 0, l |-> <<>>]
PyNone == [k |-> "none", n |-> 0, l |-> <<>>]
Num(x) == [k |-> "num", n |-> x, l |-> <<>>]
Str(parts) == [k |-> "str", n |-> 0, l |-> parts]
List(items) == [k |-> "list", n |-> 0, l |-> items]
Dict(items) == [k |-> "dict", n |-> 0, l |-> items]

\* Python truthiness of a value (bool(v)); an absent key is never tested.
Truthy(v) ==
    CASE v.k = "num" -> v.n # 0
      [] v.k \in {"str", "list", "dict"} -> v.l # <<>>
      [] OTHER -> FALSE

\* dict.get(key, default): the value when the key is present, else default.
Get(v, default) == IF v.k = "absent" THEN default ELSE v

\* The marker of a list item that is not a string (None inside a list).
NonString == "<None>"

\* str.lower() on the labels and region names the model uses.
Lower(s) ==
    CASE s = "Technology" -> "technology"
      [] s = "TECHNOLOGY" -> "technology"
      [] s = "Software" -> "software"
      [] s = "Banking" -> "banking"
      [] s = "Fintech" -> "fintech"
      [] s = "Real Estate" -> "real estate"
      [] s = "USA" -> "usa"
      [] s = " USA" -> " usa"
      [] s = "UK" -> "uk"
      [] s = " UK" -> " uk"
      [] s = "Germany" -> "germany"
      [] OTHER -> s

\* str.strip() on the region names the model uses.
Strip(s) ==
    CASE s = " usa" -> "usa"
      [] s = " uk" -> "uk"
      [] s = " USA" -> "USA"
      [] s = " UK" -> "UK"
      [] s = " " -> ""
      [] OTHER -> s

\* json.loads on the JSON texts the model uses; anything else is malformed.
JsonLoads(text) ==
    CASE text = <<"{}">> -> [err |-> FALSE, v |-> Dict(<<>>)]
      [] text = <<"[]">> -> [err |-> FALSE, v |-> List(<<>>)]
      [] text = <<"[grow]">> -> [err |-> FALSE, v |-> List(<<"grow">>)]
      [] text = <<"[grow,europe]">> -> [err |-> FALSE, v |-> List(<<"grow", "europe">>)]
      [] OTHER -> [err |-> TRUE, v |-> PyNone]

\* The exception classes the engine can meet; all derive from Exception.
\* json.JSONDecodeError is a ValueError.
ExceptionClasses == {"AttributeError", "TypeError", "ValueError", "JSONDecodeError"}

CaughtValueErrorOnly(exc) == exc \in {"ValueError", "JSONDecodeError"}

\* `except Exception`: the classes the handler catches.
CaughtByExceptException(exc) == exc \in ExceptionClasses

\* ---------------------------------------------------------------------
\* _extract_revenue
\* ---------------------------------------------------------------------
Digits == {"0", "1", "2", "3", "4", "5", "6", "7", "8", "9"}

DigitVal(c) ==
    CASE c = "0" -> 0 [] c = "1" -> 1 [] c = "2" -> 2 [] c = "3" -> 3
      [] c = "4" -> 4 [] c = "5" -> 5 [] c = "6" -> 6 [] c = "7" -> 7
      [] c = "8" -> 8 [] OTHER -> 9

Zeros(n) == [i \in 1..n |-> "0"]

\* amount_str.replace('$','').replace(',','').replace('M','000000')
\*           .replace('B','000000000'), character by character.
RECURSIVE ReplaceAll(_)
ReplaceAll(chars) ==
    IF chars = <<>> THEN <<>>
    ELSE LET c == Head(chars)
             piece == CASE c \in {"$", ","} -> <<>>
                        [] c = "M" -> Zeros(6)
                        [] c = "B" -> Zeros(9)
                        [] OTHER -> <<c>>
         IN piece \o ReplaceAll(Tail(chars))

RECURSIVE IntOf(_)
IntOf(digits) ==
    IF digits = <<>> THEN 0
    ELSE 10 * IntOf(SubSeq(digits, 1, Len(digits) - 1)) + DigitVal(digits[Len(digits)])

\* float(text) for an unsigned decimal literal: digits with at most one
\* '.'; any other text raises ValueError.  The value is kept to its integer
\* part (revenues are whole currency units in the model).
ParseFloat(chars) ==
    LET dots == {i \in 1..Len(chars) : chars[i] = "."}
        wellFormed == /\ \A i \in 1..Len(chars) : chars[i] \in Digits \cup {"."}
                      /\ Cardinality(dots) <= 1
                      /\ \E i \in 1..Len(chars) : chars[i] \in Digits
        whole == IF dots = {} THEN chars
                 ELSE SubSeq(chars, 1, (CHOOSE i \in dots : TRUE) - 1)
    IN IF wellFormed THEN [err |-> FALSE, n |-> IntOf(whole)]
       ELSE [err |-> TRUE, n |-> 0]

\* _extract_revenue(revenue_info): always a float, 0.0 on any exception.
\* A dict carries the characters of its 'amount' string in l (no 'amount'
\* key, hence the default '0', when l is empty).
ExtractRevenue(revenue_info) ==
    IF revenue_info.k # "dict" THEN Num(0)
    ELSE LET amount_str == IF revenue_info.l = <<>> THEN <<"0">> ELSE revenue_info.l
             parsed == ParseFloat(ReplaceAll(amount_str))
         IN IF parsed.err THEN Num(0) ELSE Num(parsed.n)

\* ---------------------------------------------------------------------
\* _extract_matching_features
\* ---------------------------------------------------------------------
\* A company record is a dict; each field is the Python value under that
\* key (Absent when the dict has no such key).
NoFeatures(exc) ==
    [err |-> TRUE, exc |-> exc, company_name |-> PyNone, industry |-> PyNone,
     business_model |-> PyNone, revenue |-> PyNone, employee_count |-> PyNone,
     geographic_markets |-> PyNone, products_services |-> PyNone,
     technology_stack |-> PyNone, strategic_objectives |-> PyNone,
     target_customers |-> PyNone, competitive_advantages |-> PyNone]

ExtractMatchingFeaturesReadingRow(company) ==
    LET dbFormat == company.financial_metrics.k = "str"
        fmJson == JsonLoads(company.financial_metrics.l)
        soArg == Get(company.strategic_objectives, Str(<<"{}">>))
        soJson == IF soArg.k = "str" THEN JsonLoads(soArg.l)
                  ELSE [err |-> TRUE, v |-> PyNone]
        \* the first exception of the branch, in evaluation order
        exc == IF dbFormat /\ fmJson.err THEN "JSONDecodeError"
               ELSE IF dbFormat /\ soArg.k # "str" THEN "TypeError"
               ELSE IF dbFormat /\ soJson.err THEN "JSONDecodeError"
               ELSE "AttributeError"
        bf(field, default) == Get(field, default)
        strategic_objectives ==
            IF dbFormat THEN soJson.v ELSE Get(company.strategic_objectives, List(<<>>))
        gm == company.geographic_markets
        gmSplitFails == gm.k # "absent" /\ Truthy(gm) /\ gm.k # "str"
    IN IF (dbFormat /\ (fmJson.err \/ soJson.err)) \/ gmSplitFails THEN NoFeatures(exc)
       ELSE
        [err |-> FALSE, exc |-> "",
         company_name |-> Get(company.company_name, Str(<<>>)),
         industry |-> Get(company.industry_classification,
                          bf(company.industry_classification, Str(<<>>))),
         business_model |-> bf(company.business_model, Str(<<>>)),
         revenue |-> IF Truthy(Get(company.revenue, Num(0)))
                     THEN company.revenue
                     ELSE ExtractRevenue(bf(company.revenue_info, Dict(<<>>))),
         employee_count |-> IF Truthy(Get(company.employee_count, Num(0)))
                            THEN company.employee_count
                            ELSE bf(company.employee_count, Num(0)),
         geographic_markets |-> IF gm.k # "absent" /\ Truthy(gm)
                                THEN List(gm.l)
                                ELSE bf(gm, List(<<>>)),
         products_services |-> bf(company.key_products_services, List(<<>>)),
         technology_stack |-> bf(company.technology_stack, List(<<>>)),
         strategic_objectives |-> IF strategic_objectives.k = "list"
                                  THEN strategic_objectives
                                  ELSE bf(company.strategic_objectives, List(<<>>)),
         target_customers |-> bf(company.target_customers, List(<<>>)),
         competitive_advantages |-> bf(company.competitive_advantages, List(<<>>))]

ExtractMatchingFeatures(company) ==
    LET dbFormat == company.financial_metrics.k = "str"
        fmJson == JsonLoads(company.financial_metrics.l)
        soArg == Get(company.strategic_objectives, Str(<<"{}">>))
        soJson == IF soArg.k = "str" THEN JsonLoads(soArg.l)
                  ELSE [err |-> TRUE, v |-> PyNone]
        \* the first exception of the branch, in evaluation order
        exc == IF dbFormat /\ fmJson.err THEN "JSONDecodeError"
               ELSE IF dbFormat /\ soArg.k # "str" THEN "TypeError"
               ELSE IF dbFormat /\ soJson.err THEN "JSONDecodeError"
               ELSE "AttributeError"
        \* business_features.get(key, default): {} in the database format
        bf(field, default) == IF dbFormat THEN default ELSE Get(field, default)
        strategic_objectives ==
            IF dbFormat THEN soJson.v ELSE Get(company.strategic_objectives, List(<<>>))
        gm == company.geographic_markets
        gmSplitFails == gm.k # "absent" /\ Truthy(gm) /\ gm.k # "str"
    IN IF (dbFormat /\ (fmJson.err \/ soJson.err)) \/ gmSplitFails THEN NoFeatures(exc)
       ELSE
        [err |-> FALSE, exc |-> "",
         company_name |-> Get(company.company_name, Str(<<>>)),
         industry |-> Get(company.industry_classification,
                          bf(company.industry_classification, Str(<<>>))),
         business_model |-> bf(company.business_model, Str(<<>>)),
         revenue |-> IF Truthy(Get(company.revenue, Num(0)))
                     THEN company.revenue
                     ELSE ExtractRevenue(bf(company.revenue_info, Dict(<<>>))),
         employee_count |-> IF Truthy(Get(company.employee_count, Num(0)))
                            THEN company.employee_count
                            ELSE bf(company.employee_count, Num(0)),
         geographic_markets |-> IF gm.k # "absent" /\ Truthy(gm)
                                THEN List(gm.l)
                                ELSE bf(gm, List(<<>>)),
         products_services |-> bf(company.key_products_services, List(<<>>)),
         technology_stack |-> bf(company.technology_stack, List(<<>>)),
         strategic_objectives |-> IF strategic_objectives.k = "list"
                                  THEN strategic_objectives
                                  ELSE bf(company.strategic_objectives, List(<<>>)),
         target_customers |-> bf(company.target_customers, List(<<>>)),
         competitive_advantages |-> bf(company.competitive_advantages, List(<<>>))]

\* ---------------------------------------------------------------------
\* The five similarity scorers.  Each returns [err, s]: err = TRUE when
\* the scorer raises, s the axis score in units of 1/AxisOne.
\* ---------------------------------------------------------------------
Score(x) == [err |-> FALSE, exc |-> "", s |-> x]
Raises(exc) == [err |-> TRUE, exc |-> exc, s |-> 0]

Min(a, b) == IF a <= b THEN a ELSE b
Max(a, b) == IF a >= b THEN a ELSE b

related_industries_merged ==
    { {"technology", "software", "fintech", "artificial intelligence", "saas",
       "financial services", "banking", "insurance"},
      {"healthcare", "biotech", "pharmaceutical", "medical"},
      {"retail", "e-commerce", "consumer goods", "marketplace"} }

related_industries ==
    { {"technology", "software", "fintech", "artificial intelligence", "saas"},
      {"financial services", "fintech", "banking", "insurance"},
      {"healthcare", "biotech", "pharmaceutical", "medical"},
      {"retail", "e-commerce", "consumer goods", "marketplace"} }

CalculateIndustrySimilarityCaseSensitive(features1, features2) ==
    IF features1.industry.k # "str" \/ features2.industry.k # "str"
    THEN Raises("AttributeError")
    ELSE IF features1.industry.l = <<>> \/ features2.industry.l = <<>> THEN Score(60)
    ELSE IF features1.industry.l = features2.industry.l THEN Score(AxisOne)
    ELSE IF \E cluster \in related_industries :
                features1.industry.l[1] \in cluster /\ features2.industry.l[1] \in cluster
         THEN Score(84)
    ELSE Score(24)

\* _calculate_industry_similarity: no try/except, .lower() on a value that
\* is not a string raises AttributeError.
CalculateIndustrySimilarity(features1, features2) ==
    IF features1.industry.k # "str" \/ features2.industry.k # "str"
    THEN Raises("AttributeError")
    ELSE LET industry1 == [i \in 1..Len(features1.industry.l) |-> Lower(features1.industry.l[i])]
             industry2 == [i \in 1..Len(features2.industry.l) |-> Lower(features2.industry.l[i])]
         IN IF industry1 = <<>> \/ industry2 = <<>> THEN Score(60)
            ELSE IF industry1 = industry2 THEN Score(AxisOne)
            ELSE IF \E cluster \in related_industries :
                        industry1[1] \in cluster /\ industry2[1] \in cluster
                 THEN Score(84)
            ELSE Score(24)

MarketSetUntrimmed(markets) ==
    IF markets.k \notin {"str", "list", "dict"}
    THEN [err |-> TRUE, exc |-> "TypeError", set |-> {}]
    ELSE IF \E i \in 1..Len(markets.l) : markets.l[i] = NonString
         THEN [err |-> TRUE, exc |-> "AttributeError", set |-> {}]
    ELSE [err |-> FALSE, exc |-> "",
          set |-> {Lower(markets.l[i]) : i \in 1..Len(markets.l)}]

\* set([m.lower().strip() for m in markets]); raises when markets is not
\* iterable or an entry is not a string.
MarketSet(markets) ==
    IF markets.k \notin {"str", "list", "dict"}
    THEN [err |-> TRUE, exc |-> "TypeError", set |-> {}]
    ELSE IF \E i \in 1..Len(markets.l) : markets.l[i] = NonString
         THEN [err |-> TRUE, exc |-> "AttributeError", set |-> {}]
    ELSE [err |-> FALSE, exc |-> "",
          set |-> {Strip(Lower(markets.l[i])) : i \in 1..Len(markets.l)}]

\* _calculate_geographic_similarity: no try/except.
CalculateGeographicSimilarity(features1, features2) ==
    LET m1 == MarketSet(features1.geographic_markets)
        m2 == MarketSet(features2.geographic_markets)
        markets1 == m1.set
        markets2 == m2.set
        intersection == Cardinality(markets1 \cap markets2)
        union == Cardinality(markets1 \cup markets2)
    IN IF m1.err THEN Raises(m1.exc)
       ELSE IF m2.err THEN Raises(m2.exc)
       ELSE IF markets1 = {} \/ markets2 = {} THEN Score(60)
       ELSE IF union = 0 THEN Score(60)
       ELSE IF intersection = 0 /\ Cardinality(markets1) > 0 /\ Cardinality(markets2) > 0
            THEN Score(84)
       ELSE Score((intersection * AxisOne) \div union)

\* v > 0 in Python: a comparison of a non-number with 0 raises TypeError.
GtZero(v) == [err |-> v.k # "num", b |-> v.k = "num" /\ v.n > 0]

RatioSimNonZero(a, b) ==
    IF a.k # "num" \/ b.k # "num" THEN Raises("TypeError")
    ELSE IF a.n = 0 \/ b.n = 0 THEN Score(60)
    ELSE Score((Min(a.n, b.n) * AxisOne) \div Max(a.n, b.n))

RatioSimDirected(a, b) ==
    LET ga == GtZero(a)
        gb == GtZero(b)
    IN IF ga.err THEN Raises("TypeError")
       ELSE IF ~ga.b THEN Score(60)
       ELSE IF gb.err THEN Raises("TypeError")
       ELSE IF ~gb.b THEN Score(60)
       ELSE Score((a.n * AxisOne) \div Max(a.n, b.n))

\* The ratio component of the size score: 0.5 unless both sides are > 0.
\* `a > 0 and b > 0` evaluates b > 0 only when a > 0 holds.
RatioSim(a, b) ==
    LET ga == GtZero(a)
        gb == GtZero(b)
    IN IF ga.err THEN Raises("TypeError")
       ELSE IF ~ga.b THEN Score(60)
       ELSE IF gb.err THEN Raises("TypeError")
       ELSE IF ~gb.b THEN Score(60)
       ELSE Score((Min(a.n, b.n) * AxisOne) \div Max(a.n, b.n))

\* _calculate_size_similarity: every exception is caught and gives 0.5.
CalculateSizeSimilarity(features1, features2) ==
    LET revenue1 == features1.revenue
        revenue2 == features2.revenue
        employees1 == features1.employee_count
        employees2 == features2.employee_count
        revenue_sim == RatioSim(revenue1, revenue2)
        employee_sim == RatioSim(employees1, employees2)
    IN IF ~(Truthy(revenue1) \/ Truthy(revenue2) \/ Truthy(employees1) \/ Truthy(employees2))
       THEN Score(60)
       ELSE IF revenue_sim.err \/ employee_sim.err THEN Score(60)
       ELSE Score((revenue_sim.s + employee_sim.s) \div 2)

\* ---------------------------------------------------------------------
\* Text similarity (TfidfVectorizer + cosine_similarity on two documents)
\* ---------------------------------------------------------------------
\* A text is the sequence of its words.  ' '.join(v) over a list gives the
\* list's words, over a string the string's characters (one-letter words,
\* one per character; the model keeps one per word); over a value that is
\* not iterable, or a list with a non-string item, it raises TypeError.
OneLetter == "x"

JoinWords(v) ==
    CASE v.k \in {"list", "dict"} ->
            [err |-> \E i \in 1..Len(v.l) : v.l[i] = NonString, words |-> v.l]
      [] v.k = "str" -> [err |-> FALSE, words |-> [i \in 1..Len(v.l) |-> OneLetter]]
      [] OTHER -> [err |-> TRUE, words |-> <<>>]

\* A string used as an element of the outer ' '.join([...]) must be a str.
StrWords(v) ==
    IF v.k = "str" THEN [err |-> FALSE, words |-> v.l]
    ELSE [err |-> TRUE, words |-> <<>>]

\* Words that are only white space: text.strip() drops them.
IsSpace(w) == w \in {"", " "}

\* A subset of sklearn's English stop-word list.
StopWords == {"the", "and", "of"}

RECURSIVE TokensKeepingStopWords(_)
TokensKeepingStopWords(words) ==
    IF words = <<>> THEN <<>>
    ELSE LET w == Lower(Head(words))
         IN IF IsSpace(w) \/ w = OneLetter
            THEN TokensKeepingStopWords(Tail(words))
            ELSE <<w>> \o TokensKeepingStopWords(Tail(words))

\* The analyzer: lower-case, tokens of two or more word characters
\* (token_pattern), stop words removed.
RECURSIVE Tokens(_)
Tokens(words) ==
    IF words = <<>> THEN <<>>
    ELSE LET w == Lower(Head(words))
         IN IF IsSpace(w) \/ w = OneLetter \/ w \in StopWords
            THEN Tokens(Tail(words))
            ELSE <<w>> \o Tokens(Tail(words))

\* ngram_range = (1, 2): the unigrams and bigrams of the token sequence.
Terms(toks) ==
    {<<toks[i]>> : i \in 1..Len(toks)} \cup
    {<<toks[i], toks[i + 1]>> : i \in 1..(Len(toks) - 1)}

\* Term frequency of a term in a token sequence.
Tf(toks, t) ==
    IF Len(t) = 1 THEN Cardinality({i \in 1..Len(toks) : toks[i] = t[1]})
    ELSE Cardinality({i \in 1..(Len(toks) - 1) : toks[i] = t[1] /\ toks[i + 1] = t[2]})

RECURSIVE SumOver(_, _)
SumOver(S, f) ==
    IF S = {} THEN 0
    ELSE LET x == CHOOSE y \in S : TRUE IN f[x] + SumOver(S \ {x}, f)

\* The squared smoothed idf of a term found in one of the two documents,
\* (ln(3/2) + 1)^2 = 1.975..., rounded to 2; a term found in both has idf 1.
IdfSqOne == 2

\* cosine_similarity of the two tf-idf rows, from the dot product and the
\* squared norms: the largest q/AxisOne that does not exceed it.
Cosine(dot, norm1, norm2) ==
    IF norm1 = 0 \/ norm2 = 0 THEN Score(0)
    ELSE Score(CHOOSE q \in 0..AxisOne :
                 /\ q * q * norm1 * norm2 <= AxisOne * AxisOne * dot * dot
                 /\ (q < AxisOne => (q + 1) * (q + 1) * norm1 * norm2 > AxisOne * AxisOne * dot * dot))

\* The squared norm of a document's tf-idf row; terms1 are its terms.
NormSq(toks1, terms1, terms2) ==
    SumOver(terms1, [t \in terms1 |->
                Tf(toks1, t) * Tf(toks1, t) * (IF t \in terms2 THEN 1 ELSE IdfSqOne)])

\* The two rows of fit_transform over the vocabulary terms1 \cup terms2.
TfidfRows(toks1, toks2, terms1, terms2) ==
    IF terms1 \cup terms2 = {} THEN Raises("ValueError")
    ELSE Cosine(SumOver(terms1 \cap terms2,
                        [t \in terms1 \cap terms2 |-> Tf(toks1, t) * Tf(toks2, t)]),
                NormSq(toks1, terms1, terms2),
                NormSq(toks2, terms2, terms1))

TokenCosine(toks1, toks2) == TfidfRows(toks1, toks2, Terms(toks1), Terms(toks2))

\* fit_transform([text1, text2]) then cosine_similarity of the two rows, in
\* units of 1/AxisOne rounded down; an empty vocabulary raises ValueError.
TfidfCosine(words1, words2) == TokenCosine(Tokens(words1), Tokens(words2))

\* The vocabulary of a vectorizer that was never fitted.
Unfitted == {}

\* A scorer's result together with the vocabulary self.tfidf_vectorizer
\* holds once the scorer is done.
WithVocabulary(sim, vocabulary) ==
    [err |-> sim.err, exc |-> sim.exc, s |-> sim.s, vocabulary |-> vocabulary]

\* The terms of the two texts: what a fit learns as vocabulary_.
LearntVocabulary(words1, words2) == Terms(Tokens(words1)) \cup Terms(Tokens(words2))

FitTransformKeepingVocabulary(vocabulary, words1, words2) ==
    IF vocabulary = Unfitted
    THEN WithVocabulary(TfidfCosine(words1, words2), LearntVocabulary(words1, words2))
    ELSE WithVocabulary(TfidfRows(Tokens(words1), Tokens(words2),
                                  Terms(Tokens(words1)) \cap vocabulary,
                                  Terms(Tokens(words2)) \cap vocabulary), vocabulary)

\* self.tfidf_vectorizer.fit_transform([text1, text2]): the vocabulary and
\* the idf weights are learnt anew from the two texts, whatever the
\* vectorizer held; they stay as they were when the fit raises.
FitTransform(vocabulary, words1, words2) ==
    IF LearntVocabulary(words1, words2) = {}
    THEN WithVocabulary(TfidfCosine(words1, words2), vocabulary)
    ELSE WithVocabulary(TfidfCosine(words1, words2), LearntVocabulary(words1, words2))

Blank(words) == \A i \in 1..Len(words) : IsSpace(words[i])

\* The score of a text scorer once the vectorizer has run or raised.
CaughtOrScore(sim) == IF sim.err THEN WithVocabulary(Score(60), sim.vocabulary) ELSE sim

\* The common part of the two text scorers: 0.5 when a text is blank or
\* anything raises (both have a try/except around the whole body).
TextSimilarity(vocabulary, t1, t2) ==
    IF t1.err \/ t2.err THEN WithVocabulary(Score(60), vocabulary)
    ELSE IF Blank(t1.words) \/ Blank(t2.words) THEN WithVocabulary(Score(60), vocabulary)
    ELSE CaughtOrScore(FitTransform(vocabulary, t1.words, t2.words))

JoinAll(parts) ==
    [err |-> \E i \in 1..Len(parts) : parts[i].err,
     words |-> IF Len(parts) = 2 THEN parts[1].words \o parts[2].words
               ELSE parts[1].words \o parts[2].words \o parts[3].words]

BusinessText(f) ==
    JoinAll(<<StrWords(f.business_model), JoinWords(f.products_services),
              JoinWords(f.competitive_advantages)>>)

StrategicText(f) ==
    JoinAll(<<JoinWords(f.strategic_objectives), JoinWords(f.target_customers)>>)

\* _calculate_business_similarity
CalculateBusinessSimilarity(vocabulary, features1, features2) ==
    TextSimilarity(vocabulary, BusinessText(features1), BusinessText(features2))

\* _calculate_strategic_similarity
CalculateStrategicSimilarity(vocabulary, features1, features2) ==
    TextSimilarity(vocabulary, StrategicText(features1), StrategicText(features2))

\* ---------------------------------------------------------------------
\* Scoring of one pair
\* ---------------------------------------------------------------------
DetermineMatchTypeStrict(features1, features2, industry_similarity) ==
    IF industry_similarity > 84 THEN "horizontal" ELSE "vertical"

\* _determine_match_type
DetermineMatchType(features1, features2, industry_similarity) ==
    IF industry_similarity >= 84 THEN "horizontal" ELSE "vertical"

WeightsSwapped(match_type) ==
    IF match_type = "horizontal"
    THEN [industry |-> 1, business |-> 3, geographic |-> 2, size |-> 1, strategic |-> 3]
    ELSE [industry |-> 3, business |-> 2, geographic |-> 2, size |-> 1, strategic |-> 2]

\* The weight tables of _calculate_match_score, in tenths.
Weights(match_type) ==
    IF match_type = "horizontal"
    THEN [industry |-> 3, business |-> 2, geographic |-> 2, size |-> 1, strategic |-> 2]
    ELSE [industry |-> 1, business |-> 3, geographic |-> 2, size |-> 1, strategic |-> 3]

WeightedScoreNoSize(match_type, weights, industry_sim, business_sim, geographic_sim, size_sim, strategic_sim) ==
    [raised |-> "", vocabulary |-> Unfitted,
     match_score |-> Min(industry_sim * weights.industry +
                         business_sim * weights.business +
                         geographic_sim * weights.geographic +
                         strategic_sim * weights.strategic, ScoreOne),
     match_type |-> match_type]

WeightedScoreIndustryInverted(match_type, weights, industry_sim, business_sim, geographic_sim, size_sim, strategic_sim) ==
    [raised |-> "", vocabulary |-> Unfitted,
     match_score |-> Min((AxisOne - industry_sim) * weights.industry +
                         business_sim * weights.business +
                         geographic_sim * weights.geographic +
                         size_sim * weights.size +
                         strategic_sim * weights.strategic, ScoreOne),
     match_type |-> match_type]

\* The weighted sum of line 113, clamped at 1.0 (line 121).
WeightedScore(match_type, weights, industry_sim, business_sim, geographic_sim, size_sim, strategic_sim) ==
    [raised |-> "", vocabulary |-> Unfitted,
     match_score |-> Min(industry_sim * weights.industry +
                         business_sim * weights.business +
                         geographic_sim * weights.geographic +
                         size_sim * weights.size +
                         strategic_sim * weights.strategic, ScoreOne),
     match_type |-> match_type]

\* The handler of _calculate_match_score: (0.0, 'unknown').
ScoreFailed(exc) ==
    [raised |-> IF CaughtByExceptException(exc) THEN "" ELSE exc, vocabulary |-> Unfitted,
     match_score |-> 0, match_type |-> "unknown"]

\* A result of _calculate_match_score with the vocabulary the vectorizer
\* holds when the function returns.
Leaving(scored, vocabulary) == [scored EXCEPT !.vocabulary = vocabulary]

\* Lines 89-121 once the five scorers have run.
CombineScores(features1, features2, industry_sim, business_sim, geographic_sim, size_sim, strategic_sim) ==
    IF geographic_sim.err THEN Leaving(ScoreFailed(geographic_sim.exc), business_sim.vocabulary)
    ELSE Leaving(WeightedScore(DetermineMatchType(features1, features2, industry_sim.s),
                               Weights(DetermineMatchType(features1, features2, industry_sim.s)),
                               industry_sim.s, business_sim.s, geographic_sim.s,
                               size_sim.s, strategic_sim.s),
                 strategic_sim.vocabulary)

\* Lines 84-121 once the industry and business scorers have run: the
\* strategic scorer finds the vectorizer as the business scorer left it.
ScoreAfterBusiness(features1, features2, industry_sim, business_sim) ==
    CombineScores(features1, features2, industry_sim, business_sim,
                  CalculateGeographicSimilarity(features1, features2),
                  CalculateSizeSimilarity(features1, features2),
                  CalculateStrategicSimilarity(business_sim.vocabulary, features1, features2))

\* Lines 83-121 once the industry scorer has run.
ScoreAfterIndustry(vocabulary, features1, features2, industry_sim) ==
    IF industry_sim.err THEN Leaving(ScoreFailed(industry_sim.exc), vocabulary)
    ELSE ScoreAfterBusiness(features1, features2, industry_sim,
                            CalculateBusinessSimilarity(vocabulary, features1, features2))

\* Lines 82-121 on the two feature records.
ScoreFeatures(vocabulary, features1, features2) ==
    IF features1.err THEN Leaving(ScoreFailed(features1.exc), vocabulary)
    ELSE IF features2.err THEN Leaving(ScoreFailed(features2.exc), vocabulary)
    ELSE ScoreAfterIndustry(vocabulary, features1, features2,
                            CalculateIndustrySimilarity(features1, features2))

\* _calculate_match_score: (match_score, match_type); any exception of the
\* normalizer or of a scorer gives (0.0, 'unknown').  vocabulary is what
\* self.tfidf_vectorizer holds when the function is entered.
CalculateMatchScore(vocabulary, company1, company2) ==
    ScoreFeatures(vocabulary, ExtractMatchingFeatures(company1), ExtractMatchingFeatures(company2))

NoFactorsNotRaised(exc) ==
    [err |-> FALSE, exc |-> exc, vocabulary |-> Unfitted,
     industry_similarity |-> 0, business_similarity |-> 0,
     geographic_similarity |-> 0, size_similarity |-> 0, strategic_similarity |-> 0]

\* What _get_similarity_factors leaves when it raises exc.
NoFactors(exc) ==
    [err |-> TRUE, exc |-> exc, vocabulary |-> Unfitted,
     industry_similarity |-> 0, business_similarity |-> 0,
     geographic_similarity |-> 0, size_similarity |-> 0, strategic_similarity |-> 0]

\* The dict of lines 314-320 once the five scorers have run.
FactorsDict(industry_sim, business_sim, geographic_sim, size_sim, strategic_sim) ==
    IF geographic_sim.err THEN Leaving(NoFactors(geographic_sim.exc), business_sim.vocabulary)
    ELSE [err |-> FALSE, exc |-> "", vocabulary |-> strategic_sim.vocabulary,
          industry_similarity |-> industry_sim.s,
          business_similarity |-> business_sim.s,
          geographic_similarity |-> geographic_sim.s,
          size_similarity |-> size_sim.s,
          strategic_similarity |-> strategic_sim.s]

\* Lines 316-320 once the industry and business scorers have run.
FactorsAfterBusiness(features1, features2, industry_sim, business_sim) ==
    FactorsDict(industry_sim, business_sim,
                CalculateGeographicSimilarity(features1, features2),
                CalculateSizeSimilarity(features1, features2),
                CalculateStrategicSimilarity(business_sim.vocabulary, features1, features2))

\* Lines 315-320 once the industry scorer has run.
FactorsAfterIndustry(vocabulary, features1, features2, industry_sim) ==
    IF industry_sim.err THEN Leaving(NoFactors(industry_sim.exc), vocabulary)
    ELSE FactorsAfterBusiness(features1, features2, industry_sim,
                              CalculateBusinessSimilarity(vocabulary, features1, features2))

FactorsOfFeatures(vocabulary, features1, features2) ==
    IF features1.err THEN Leaving(NoFactors(features1.exc), vocabulary)
    ELSE IF features2.err THEN Leaving(NoFactors(features2.exc), vocabulary)
    ELSE FactorsAfterIndustry(vocabulary, features1, features2,
                              CalculateIndustrySimilarity(features1, features2))

\* _get_similarity_factors: no try/except, an exception propagates.
GetSimilarityFactors(vocabulary, company1, company2) ==
    FactorsOfFeatures(vocabulary, ExtractMatchingFeatures(company1), ExtractMatchingFeatures(company2))

\* ---------------------------------------------------------------------
\* find_matches
\* ---------------------------------------------------------------------
SortDescSkipped(matches) == matches

RECURSIVE InsertDescBeforeEqual(_, _)
InsertDescBeforeEqual(sorted, m) ==
    IF sorted = <<>> THEN <<m>>
    ELSE IF Head(sorted).match_score > m.match_score
         THEN <<Head(sorted)>> \o InsertDescBeforeEqual(Tail(sorted), m)
         ELSE <<m>> \o sorted

\* matches.sort(key=match_score, reverse=True): a stable sort, entries of
\* equal score keep their order.
RECURSIVE InsertDesc(_, _)
InsertDesc(sorted, m) ==
    IF sorted = <<>> THEN <<m>>
    ELSE IF Head(sorted).match_score >= m.match_score
         THEN <<Head(sorted)>> \o InsertDesc(Tail(sorted), m)
         ELSE <<m>> \o sorted

RECURSIVE SortDesc(_)
SortDesc(matches) ==
    IF matches = <<>> THEN <<>>
    ELSE InsertDesc(SortDesc(SubSeq(matches, 1, Len(matches) - 1)), matches[Len(matches)])

SliceDropped(matches, n) == matches

\* matches[:n], with Python's meaning of a negative n.
Slice(matches, n) ==
    IF n >= 0 THEN SubSeq(matches, 1, Min(n, Len(matches)))
    ELSE SubSeq(matches, 1, Max(Len(matches) + n, 0))

SameCompanyIdOnly(user_company, candidate) ==
    Get(user_company.company_id, PyNone) = Get(candidate.company_id, PyNone)

\* The same-company test of the loop; .get on a missing key gives None.
SameCompany(user_company, candidate) ==
    \/ Get(user_company.company_id, PyNone) = Get(candidate.company_id, PyNone)
    \/ Get(user_company.company_name, PyNone) = Get(candidate.company_name, PyNone)

RetainedAlways(match_score, min_score) == TRUE

\* The threshold test of the loop.
Retained(match_score, min_score) == match_score >= min_score

\* Lines 51-60 for one candidate that is not skipped: what the loop body
\* does with the pair's score and factors.  kind is "raise" (an exception
\* leaves the loop), "match" (a Match is appended) or "drop".
Judge(candidate, scored, factors, min_score) ==
    IF scored.raised # ""
    THEN [kind |-> "raise", exc |-> scored.raised, match |-> <<>>,
          vocabulary |-> scored.vocabulary]
    ELSE IF ~Retained(scored.match_score, min_score)
    THEN [kind |-> "drop", exc |-> "", match |-> <<>>, vocabulary |-> scored.vocabulary]
    ELSE IF factors.err
    THEN [kind |-> "raise", exc |-> factors.exc, match |-> <<>>,
          vocabulary |-> factors.vocabulary]
    ELSE [kind |-> "match", exc |-> "", vocabulary |-> factors.vocabulary,
          match |-> <<[candidate_company |-> candidate,
                       match_score |-> scored.match_score,
                       match_type |-> scored.match_type,
                       similarity_factors |->
                           [industry_similarity |-> factors.industry_similarity,
                            business_similarity |-> factors.business_similarity,
                            geographic_similarity |-> factors.geographic_similarity,
                            size_similarity |-> factors.size_similarity,
                            strategic_similarity |-> factors.strategic_similarity]]>>]

\* Lines 51-60 once _calculate_match_score has returned: the factors are
\* computed on the vectorizer as the scoring left it.
JudgeScored(user_company, candidate, scored, min_score) ==
    Judge(candidate, scored,
          GetSimilarityFactors(scored.vocabulary, user_company, candidate), min_score)

\* The loop body, lines 46-60, for one candidate.  .get on something that
\* is not a dict raises AttributeError.
LoopBody(vocabulary, user_company, candidate, min_score) ==
    IF ~user_company.isdict \/ ~candidate.isdict
    THEN [kind |-> "raise", exc |-> "AttributeError", match |-> <<>>,
          vocabulary |-> vocabulary]
    ELSE IF SameCompany(user_company, candidate)
    THEN [kind |-> "drop", exc |-> "", match |-> <<>>, vocabulary |-> vocabulary]
    ELSE JudgeScored(user_company, candidate,
                     CalculateMatchScore(vocabulary, user_company, candidate), min_score)

\* The candidate loop from index i on, with the matches collected so far.
\* raised names the exception that leaves the loop ("" for none).
RECURSIVE ScoreCandidates(_, _, _, _, _, _)
LoopStep(step, user_company, candidate_companies, min_score, i, matches) ==
    IF step.kind = "raise"
    THEN [raised |-> step.exc, matches |-> matches, vocabulary |-> step.vocabulary]
    ELSE ScoreCandidates(step.vocabulary, user_company, candidate_companies, min_score,
                         i + 1, matches \o step.match)

ScoreCandidates(vocabulary, user_company, candidate_companies, min_score, i, matches) ==
    IF i > Len(candidate_companies)
    THEN [raised |-> "", matches |-> matches, vocabulary |-> vocabulary]
    ELSE LoopStep(LoopBody(vocabulary, user_company, candidate_companies[i], min_score),
                  user_company, candidate_companies, min_score, i, matches)

\* Lines 62-68 after the loop: sort and cut, or the outer handler.
AfterLoop(loop, max_results) ==
    IF loop.raised = ""
    THEN [outcome |-> "returned", failed |-> FALSE, vocabulary |-> loop.vocabulary,
          matches |-> Slice(SortDesc(loop.matches), max_results)]
    ELSE IF CaughtByExceptException(loop.raised)
    THEN [outcome |-> "returned", failed |-> TRUE, vocabulary |-> loop.vocabulary,
          matches |-> <<>>]
    ELSE [outcome |-> "raised", failed |-> TRUE, vocabulary |-> loop.vocabulary,
          matches |-> <<>>]

FindMatchesResultIndexingFirst(vocabulary, user_company, candidate_companies, min_score, max_results) ==
    IF candidate_companies = <<>>
    THEN [outcome |-> "raised", failed |-> FALSE, vocabulary |-> vocabulary,
          matches |-> <<>>]
    ELSE AfterLoop(ScoreCandidates(vocabulary, user_company, candidate_companies,
                                   min_score, 1, <<>>),
                   max_results)

\* find_matches: [outcome, failed, matches].  outcome is "returned", or
\* "raised" when an exception leaves the function; failed = TRUE when the
\* outer except caught an exception (st.error is called, [] is returned).
FindMatchesResult(vocabulary, user_company, candidate_companies, min_score, max_results) ==
    IF candidate_companies = <<>>
    THEN [outcome |-> "returned", failed |-> FALSE, vocabulary |-> vocabulary,
          matches |-> <<>>]
    ELSE AfterLoop(ScoreCandidates(vocabulary, user_company, candidate_companies,
                                   min_score, 1, <<>>),
                   max_results)

\* ---------------------------------------------------------------------
\* Company records handed to the engine
\* ---------------------------------------------------------------------
\* A dict without any of the keys the engine reads.
EmptyRecord ==
    [isdict |-> TRUE, company_id |-> Absent, company_name |-> Absent,
     industry_classification |-> Absent, financial_metrics |-> Absent,
     strategic_objectives |-> Absent, revenue |-> Absent, revenue_info |-> Absent,
     employee_count |-> Absent, geographic_markets |-> Absent,
     business_model |-> Absent, key_products_services |-> Absent,
     technology_stack |-> Absent, target_customers |-> Absent,
     competitive_advantages |-> Absent]

\* An element of the candidate list that is not a dict (None).
NotARecord == [EmptyRecord EXCEPT !.isdict = FALSE]

\* A row of the companies table as get_companies_by_user returns it: the
\* JSON columns are strings, the markets a comma-joined string.
DbRow(id, name, industry, revenue, employees, markets) ==
    [EmptyRecord EXCEPT !.company_id = Num(id), !.company_name = Str(<<name>>),
                        !.industry_classification = Str(<<industry>>),
                        !.financial_metrics = Str(<<"{}">>),
                        !.strategic_objectives = Str(<<"{}">>),
                        !.revenue = Num(revenue), !.employee_count = Num(employees),
                        !.geographic_markets = Str(markets)]

\* A company in the nested shape with decoded JSON columns (get_company)
\* and the text fields of the extracted business features.
Nested(id, name, industry, revenue, employees, markets, model, products, objectives) ==
    [EmptyRecord EXCEPT !.company_id = Num(id), !.company_name = Str(<<name>>),
                        !.industry_classification = Str(<<industry>>),
                        !.financial_metrics = Dict(<<>>),
                        !.strategic_objectives = List(objectives),
                        !.revenue = Num(revenue), !.employee_count = Num(employees),
                        !.geographic_markets = Str(markets),
                        !.business_model = Str(model),
                        !.key_products_services = List(products)]

\* A freshly extracted business-features record: no id, the markets a list.
Fresh(name, industry, revenue, employees, markets) ==
    [EmptyRecord EXCEPT !.company_name = Str(<<name>>),
                        !.industry_classification = Str(<<industry>>),
                        !.revenue = Num(revenue), !.employee_count = Num(employees),
                        !.geographic_markets = List(markets)]

\* A company profile as the upload pipeline builds it (test_estateguru.py,
\* company_data): no id, the markets comma-joined, the JSON fields decoded.
Profile(name, industry, revenue, employees, markets) ==
    [EmptyRecord EXCEPT !.company_name = Str(<<name>>),
                        !.industry_classification = Str(<<industry>>),
                        !.financial_metrics = Dict(<<>>),
                        !.strategic_objectives = List(<<>>),
                        !.revenue = Num(revenue), !.employee_count = Num(employees),
                        !.geographic_markets = Str(markets)]

AcmeRow == DbRow(1, "Acme", "Technology", 1000000, 50, <<"USA">>)
BetaRow == DbRow(2, "Beta", "technology", 1200000, 50, <<"USA">>)
GammaRow == DbRow(3, "Gamma", "Banking", 500000, 25, <<"UK", " Germany">>)
\* zero revenue, no employee_count column value
DeltaRow == [DbRow(4, "Delta", "Software", 0, 0, <<"USA", " UK">>)
               EXCEPT !.employee_count = Absent]
\* empty industry and markets, negative revenue
HotelRow == [DbRow(10, "Hotel", "", -1500000, 0, <<>>)
               EXCEPT !.industry_classification = Str(<<>>)]
\* a row whose financial_metrics column does not hold valid JSON
BrokenRow == [DbRow(5, "Broken", "Technology", 1000000, 50, <<"USA">>)
                EXCEPT !.financial_metrics = Str(<<"{bad">>)]
\* a row whose industry column is NULL
NullIndustryRow == [DbRow(6, "Nullco", "Technology", 1000000, 50, <<"USA">>)
                      EXCEPT !.industry_classification = PyNone]
\* another row carrying the name of AcmeRow
AcmeTwinRow == DbRow(7, "Acme", "Banking", 500000, 25, <<"UK">>)
AcmeNested == Nested(1, "Acme", "Technology", 1000000, 50, <<"USA">>,
                     <<"cloud", "platform">>, <<"analytics">>, <<"grow", "europe">>)
EchoNested == Nested(8, "Echo", "Real Estate", 10000, -3, <<"USA", " UK", " Germany">>,
                     <<"property", "lending">>, <<"loans">>, <<"the", "and">>)
FoxNested == Nested(9, "Fox", "Software", 1200000, 50, <<"Germany">>,
                    <<"cloud", "platform">>, <<"billing">>, <<"grow", "asia">>)
AcmeFresh == Fresh("Acme", "Technology", 1000000, 50, <<"USA">>)
BetaFresh == Fresh("Beta", "Technology", 1200000, 50, <<"USA">>)
AcmeProfile == Profile("Acme", "Technology", 1000000, 50, <<"USA">>)
BetaProfile == Profile("Beta", "Technology", 1200000, 50, <<"USA">>)
\* a row that differs from GammaRow in id and name only
OmegaRow == DbRow(14, "Omega", "Banking", 500000, 25, <<"UK", " Germany">>)
\* a row of the cluster-sharing industry between software and banking
FintechRow == DbRow(15, "Fina", "Fintech", 1000000, 50, <<"USA">>)
\* a row with known revenue and an employee count of zero
SoloRow == DbRow(16, "Solo", "Technology", 500000, 0, <<"USA">>)
\* profiles whose revenue is to be read from revenue_info['amount']
AmountProfile(name, amount) ==
    [Profile(name, "Technology", 0, 50, <<"USA">>) EXCEPT !.revenue = Absent,
                                                        !.revenue_info = Dict(amount)]
FiveMillionProfile == AmountProfile("Five", <<"$", "5", "M">>)
OneAndHalfMillionProfile == AmountProfile("Half", <<"1", ".", "5", "M">>)
ThousandsProfile == AmountProfile("Kilo", <<"$", "1", ",", "2", "0", "0", ",", "0", "0", "0">>)
UnparsableProfile == AmountProfile("Nope", <<"n", "/", "a">>)
\* AcmeNested under another industry of its cluster, and without industry
AcmeSoftwareNested ==
    [AcmeNested EXCEPT !.company_id = Num(17), !.company_name = Str(<<"Asoft">>),
                       !.industry_classification = Str(<<"Software">>)]
AcmeUnlabelledNested ==
    [AcmeNested EXCEPT !.company_id = Num(18), !.company_name = Str(<<"Anon">>),
                       !.industry_classification = Str(<<>>)]
\* a persisted row that also carries fields of the extracted features
RichRow ==
    [DbRow(19, "Rich", "Technology", 0, 50, <<"USA">>)
       EXCEPT !.business_model = Str(<<"cloud", "platform">>),
              !.key_products_services = List(<<"analytics">>),
              !.competitive_advantages = List(<<"scale">>),
              !.technology_stack = List(<<"python">>),
              !.target_customers = List(<<"banks">>),
              !.revenue_info = Dict(<<"$", "5", "M">>)]
\* the industry of AcmeRow in capitals
UpperRow == DbRow(11, "Upper", "TECHNOLOGY", 800000, 40, <<"usa", "UK">>)
\* a row whose strategic_objectives column was decoded to a list already
ListObjectivesRow == [DbRow(12, "Listco", "Banking", 500000, 25, <<"UK">>)
                        EXCEPT !.strategic_objectives = List(<<"grow">>)]
\* a nested record whose employee_count is null
NullEmployeesNested == [Nested(13, "Nemo", "Software", 900000, 0, <<"USA">>,
                               <<"cloud", "platform">>, <<"analytics">>, <<"grow", "europe">>)
                          EXCEPT !.employee_count = PyNone]
\* a fresh record whose geographic_markets is null
NullMarketsFresh == [Fresh("Nomad", "Technology", 1000000, 50, <<>>)
                       EXCEPT !.geographic_markets = PyNone]

Sources == {AcmeRow, AcmeNested, AcmeFresh, NullIndustryRow}

Candidates == {AcmeRow, BetaRow, DeltaRow, HotelRow, BrokenRow,
               AcmeTwinRow, EchoNested, FoxNested, BetaFresh, NotARecord}

\* Longest candidate list
MaxCands == 3

CandidateLists == UNION {[1..n -> Candidates] : n \in 0..MaxCands}

\* Config.MIN_MATCH_SCORE = 0.3 and Config.MAX_MATCHES_PER_QUERY
MIN_MATCH_SCORE == 360
MAX_MATCHES_PER_QUERY == 50

\* The thresholds and caps an engine is run with.
MinScores == {0, MIN_MATCH_SCORE}
MaxMatches == {1, MAX_MATCHES_PER_QUERY}

\* ---------------------------------------------------------------------
\* get_feature_importance
\* ---------------------------------------------------------------------
\* An importance is a number of thousandths (0.2 = 200).
ImportanceOne == 1000

\* `return {}` of line 333.
NoImportance ==
    [empty |-> TRUE, industry_importance |-> 0, business_importance |-> 0,
     geographic_importance |-> 0, size_importance |-> 0, strategic_importance |-> 0]

ImportanceDict(values) ==
    [empty |-> FALSE, industry_importance |-> values[1], business_importance |-> values[2],
     geographic_importance |-> values[3], size_importance |-> values[4],
     strategic_importance |-> values[5]]

\* The dict of lines 351-357 and the list [0.2] * 5 of line 373.
UniformImportance == ImportanceDict([i \in 1..5 |-> ImportanceOne \div 5])

\* factors_data: one row of five factors per match (lines 339-347).
FactorsRow(match) ==
    <<match.similarity_factors.industry_similarity,
      match.similarity_factors.business_similarity,
      match.similarity_factors.geographic_similarity,
      match.similarity_factors.size_similarity,
      match.similarity_factors.strategic_similarity>>

RECURSIVE SumSeq(_)
SumSeq(xs) == IF xs = <<>> THEN 0 ELSE Head(xs) + SumSeq(Tail(xs))

\* The integer square root.
Isqrt(v) == CHOOSE q \in 0..(ScoreOne * 8) : q * q <= v /\ (q + 1) * (q + 1) > v

\* n * sum(x*y) - sum(x) * sum(y): n^2 times the covariance of two columns.
Covariance(xs, ys) ==
    Len(xs) * SumSeq([i \in 1..Len(xs) |-> xs[i] * ys[i]]) - SumSeq(xs) * SumSeq(ys)

Abs(x) == IF x < 0 THEN -x ELSE x

\* abs(np.corrcoef(xs, ys)[0, 1]) in thousandths, 0 for nan (a column of
\* zero variance); the quotient is taken in two steps to stay within the
\* integers of the model, so the value is a lower approximation.
AbsCorrelation(xs, ys) ==
    IF Covariance(xs, xs) = 0 \/ Covariance(ys, ys) = 0 THEN 0
    ELSE Min(ImportanceOne,
             ((Abs(Covariance(xs, ys)) \div Isqrt(Covariance(xs, xs))) * ImportanceOne)
                 \div Isqrt(Covariance(ys, ys)))

\* Lines 368-373: the correlations divided by their sum, or uniform.
Normalized(correlations) ==
    IF SumSeq(correlations) > 0
    THEN ImportanceDict([i \in 1..5 |->
                            (correlations[i] * ImportanceOne) \div SumSeq(correlations)])
    ELSE UniformImportance

\* Lines 359-381 on the factor rows and the scores.
CorrelationImportance(factors_data, scores) ==
    Normalized([i \in 1..5 |->
                   AbsCorrelation([m \in 1..Len(factors_data) |-> factors_data[m][i]], scores)])

\* get_feature_importance(matches)
GetFeatureImportanceResult(matches) ==
    IF matches = <<>> THEN NoImportance
    ELSE IF Len(matches) < 2 THEN UniformImportance
    ELSE CorrelationImportance([m \in 1..Len(matches) |-> FactorsRow(matches[m])],
                               [m \in 1..Len(matches) |-> matches[m].match_score])

\* ---------------------------------------------------------------------
\* State
\* ---------------------------------------------------------------------
\* What a caller passes to find_matches after the two company arguments:
\* nothing, or a threshold and a cap.
NoArguments == [given |-> FALSE, min_score |-> 0, max_results |-> 0]
Arguments(min_score, max_results) ==
    [given |-> TRUE, min_score |-> min_score, max_results |-> max_results]

\* The value of a variable that holds nothing yet.
NotComputed == [NoImportance EXCEPT !.empty = FALSE]
NotNormalized == NoFeatures("")
NotScored == ScoreFailed("")
NotRun == Raises("")
NoAxes ==
    [industry |-> NotRun, business |-> NotRun, geographic |-> NotRun,
     size |-> NotRun, strategic |-> NotRun]

VARIABLES
    min_match_score,      \* self.min_match_score
    max_matches,          \* self.max_matches
    vocabulary,           \* the vocabulary_ of self.tfidf_vectorizer
    user_company,         \* argument of the current find_matches call
    candidate_companies,  \* argument of the current find_matches call
    supplied,             \* further arguments of the current find_matches call
    pc,                   \* "ready": call pending; "returned" / "raised": how it ended
    result,               \* the list the call returned
    failed,               \* the call went through the outer except
    importance,           \* what get_feature_importance(result) returned
    company1,             \* arguments of a _calculate_match_score call
    company2,
    step,                 \* position in it: "input", "normalized", "scored"
    features1,            \* its local variables
    features2,
    axes,                 \* industry_sim ... strategic_sim
    scored                \* what it returned

engineVars == <<min_match_score, max_matches, vocabulary>>
callVars == <<user_company, candidate_companies, supplied, pc, result, failed, importance>>
pairVars == <<company1, company2, step, features1, features2, axes, scored>>
vars == <<engineVars, callVars, pairVars>>

\* No _calculate_match_score call of its own is under way.
NoPair ==
    /\ company1 = EmptyRecord
    /\ company2 = EmptyRecord
    /\ step = "idle"
    /\ features1 = NotNormalized
    /\ features2 = NotNormalized
    /\ axes = NoAxes
    /\ scored = NotScored

\* No find_matches call is under way.
NoCall ==
    /\ user_company = EmptyRecord
    /\ candidate_companies = <<>>
    /\ supplied = NoArguments
    /\ pc = "idle"
    /\ result = <<>>
    /\ failed = FALSE
    /\ importance = NotComputed

\* The engine after __init__ with the thresholds it is configured with;
\* the page calls find_matches with the two company arguments only.
Init ==
    /\ min_match_score \in MinScores
    /\ max_matches \in MaxMatches
    /\ vocabulary = Unfitted
    /\ user_company \in Sources
    /\ candidate_companies \in CandidateLists
    /\ supplied = NoArguments
    /\ pc = "ready"
    /\ result = <<>>
    /\ failed = FALSE
    /\ importance = NotComputed
    /\ NoPair

\* The caller receives what the call gives.
Return(r) ==
    /\ result' = r.matches
    /\ failed' = r.failed
    /\ pc' = r.outcome
    /\ vocabulary' = r.vocabulary

\* find_matches(self, user_company, candidate_companies) takes no further
\* argument: a call that passes one raises TypeError before the body runs.
RejectArguments ==
    /\ result' = <<>>
    /\ failed' = FALSE
    /\ pc' = "raised"
    /\ vocabulary' = vocabulary

\* One call of find_matches on the engine.
FindMatches ==
    /\ pc = "ready"
    /\ IF supplied.given THEN RejectArguments
       ELSE Return(FindMatchesResult(vocabulary, user_company, candidate_companies,
                                     min_match_score, max_matches))
    /\ UNCHANGED <<min_match_score, max_matches, user_company, candidate_companies,
                   supplied, importance, pairVars>>

\* The page is run again after a candidate company left the pool: the next
\* call gets the candidate list without that company.
NextQuery ==
    /\ pc = "returned"
    /\ \E i \in 1..Len(candidate_companies) :
          candidate_companies' = SubSeq(candidate_companies, 1, i - 1) \o
                                 SubSeq(candidate_companies, i + 1, Len(candidate_companies))
    /\ pc' = "ready"
    /\ result' = <<>>
    /\ failed' = FALSE
    /\ importance' = NotComputed
    /\ UNCHANGED <<engineVars, user_company, supplied, pairVars>>

Next == FindMatches \/ NextQuery

Spec == Init /\ [][Next]_vars

\* ---------------------------------------------------------------------
\* A session that also asks for the feature importance of a result and
\* passes thresholds with a call
\* ---------------------------------------------------------------------
SessionSources == {AcmeRow, AcmeNested, AcmeProfile}
SessionCandidates == {BetaRow, GammaRow, OmegaRow, FoxNested, BrokenRow, BetaProfile}

\* Longest candidate list of a session
MaxSessionCands == 2

SessionLists == UNION {[1..n -> SessionCandidates] : n \in 0..MaxSessionCands}

\* What the caller may pass after the company arguments.
CallArguments == {NoArguments, Arguments(0, 1)}

\* The engine as MatchingEngine() builds it (lines 25-26).
SessionInit ==
    /\ min_match_score = MIN_MATCH_SCORE
    /\ max_matches = MAX_MATCHES_PER_QUERY
    /\ vocabulary = Unfitted
    /\ user_company \in SessionSources
    /\ candidate_companies \in SessionLists
    /\ supplied \in CallArguments
    /\ pc = "ready"
    /\ result = <<>>
    /\ failed = FALSE
    /\ importance = NotComputed
    /\ NoPair

\* get_feature_importance on the list the call returned.
GetFeatureImportance ==
    /\ pc = "returned"
    /\ importance = NotComputed
    /\ importance' = GetFeatureImportanceResult(result)
    /\ UNCHANGED <<engineVars, user_company, candidate_companies, supplied, pc, result,
                   failed, pairVars>>

\* The caller calls again on the same companies, with or without further
\* arguments.
NextCall ==
    /\ pc \in {"returned", "raised"}
    /\ supplied' \in CallArguments
    /\ pc' = "ready"
    /\ result' = <<>>
    /\ failed' = FALSE
    /\ importance' = NotComputed
    /\ UNCHANGED <<engineVars, user_company, candidate_companies, pairVars>>

SessionNext == FindMatches \/ GetFeatureImportance \/ NextCall

SessionSpec == SessionInit /\ [][SessionNext]_vars

\* ---------------------------------------------------------------------
\* _calculate_match_score on one pair of records, step by step
\* ---------------------------------------------------------------------
PairRecords ==
    {EmptyRecord, AcmeRow, BetaRow, UpperRow, GammaRow, DeltaRow, HotelRow, BrokenRow,
     NullIndustryRow, ListObjectivesRow, AcmeNested, EchoNested, FoxNested,
     NullEmployeesNested, NullMarketsFresh, BetaFresh, AcmeProfile, FintechRow, SoloRow,
     FiveMillionProfile, OneAndHalfMillionProfile, ThousandsProfile, UnparsableProfile,
     AcmeSoftwareNested, AcmeUnlabelledNested, RichRow}

PairInit ==
    /\ min_match_score = MIN_MATCH_SCORE
    /\ max_matches = MAX_MATCHES_PER_QUERY
    /\ vocabulary = Unfitted
    /\ NoCall
    /\ company1 \in PairRecords
    /\ company2 \in PairRecords
    /\ step = "input"
    /\ features1 = NotNormalized
    /\ features2 = NotNormalized
    /\ axes = NoAxes
    /\ scored = NotScored

\* Lines 79-80: the two records are normalized.
Normalize ==
    /\ step = "input"
    /\ features1' = ExtractMatchingFeatures(company1)
    /\ features2' = ExtractMatchingFeatures(company2)
    /\ step' = "normalized"
    /\ UNCHANGED <<engineVars, callVars, company1, company2, axes, scored>>

\* A scorer's result as the local variable holds it.
Local(sim) == [err |-> sim.err, exc |-> sim.exc, s |-> sim.s]

\* The locals of lines 85-87 once the geographic scorer has run: the size
\* and strategic scorers run only when it did not raise.
AxesAfterGeographic(vocabulary_, f1, f2, industry_sim, business_sim, geographic_sim) ==
    [industry |-> industry_sim, business |-> Local(business_sim),
     geographic |-> geographic_sim,
     size |-> IF geographic_sim.err THEN NotRun ELSE CalculateSizeSimilarity(f1, f2),
     strategic |-> IF geographic_sim.err THEN NotRun
                   ELSE Local(CalculateStrategicSimilarity(vocabulary_, f1, f2))]

\* The locals of lines 84-87 once the industry scorer has run.
AxesAfterIndustry(vocabulary_, f1, f2, industry_sim, business_sim) ==
    IF industry_sim.err THEN [NoAxes EXCEPT !.industry = industry_sim]
    ELSE AxesAfterGeographic(business_sim.vocabulary, f1, f2, industry_sim, business_sim,
                             CalculateGeographicSimilarity(f1, f2))

\* industry_sim ... strategic_sim of lines 83-87; a scorer that is not
\* reached holds NotRun.
AxisScores(vocabulary_, f1, f2) ==
    IF f1.err \/ f2.err THEN NoAxes
    ELSE AxesAfterIndustry(vocabulary_, f1, f2, CalculateIndustrySimilarity(f1, f2),
                           CalculateBusinessSimilarity(vocabulary_, f1, f2))

\* Lines 82-125: the scorers run on the feature records and the scores
\* are combined, or the handler gives (0.0, 'unknown').
ScorePair ==
    /\ step = "normalized"
    /\ axes' = AxisScores(vocabulary, features1, features2)
    /\ scored' = Leaving(ScoreFeatures(vocabulary, features1, features2), Unfitted)
    /\ vocabulary' = ScoreFeatures(vocabulary, features1, features2).vocabulary
    /\ step' = "scored"
    /\ UNCHANGED <<min_match_score, max_matches, callVars, company1, company2,
                   features1, features2>>

PairNext == Normalize \/ ScorePair

PairSpec == PairInit /\ [][PairNext]_vars

\* ---------------------------------------------------------------------
\* Properties of find_matches
\* ---------------------------------------------------------------------
Returned == pc = "returned"

\* The candidates of the current call that the loop scores (not skipped
\* by the same-company test).
ScoredIndexes ==
    {i \in 1..Len(candidate_companies) :
        /\ user_company.isdict /\ candidate_companies[i].isdict
        /\ ~SameCompany(user_company, candidate_companies[i])}

ScoreOf(i) == CalculateMatchScore(Unfitted, user_company, candidate_companies[i])

\* C1: every Match of the returned list has match_score >= the threshold
\* in force for the call.
C1_AboveThreshold ==
    Returned => \A i \in 1..Len(result) : result[i].match_score >= min_match_score

\* A call that returned a match and dropped a scored candidate whose score
\* is below the threshold.
C1_Witness ==
    /\ Returned /\ result # <<>>
    /\ \E i \in ScoredIndexes :
          ScoreOf(i).match_type # "unknown" /\ ScoreOf(i).match_score < min_match_score

\* C2: the returned list is ordered by non-increasing match_score.
C2_SortedDescending ==
    Returned => \A i \in 1..(Len(result) - 1) :
                    result[i].match_score >= result[i + 1].match_score

\* A call that returned two matches of different scores whose candidates
\* came in the opposite order in the candidate list.
C2_Witness ==
    /\ Returned /\ Len(result) >= 2
    /\ result[1].match_score > result[2].match_score
    /\ \E i, j \in 1..Len(candidate_companies) :
          /\ i < j
          /\ candidate_companies[i] = result[2].candidate_company
          /\ candidate_companies[j] = result[1].candidate_company
          /\ candidate_companies[i] # candidate_companies[j]

\* The candidates that pass the threshold in a call that does not fail.
RetainedIndexes ==
    {i \in ScoredIndexes : ScoreOf(i).match_score >= min_match_score}

ReturnedCompanies == {result[i].candidate_company : i \in 1..Len(result)}

\* C3: at most max_results entries are returned, and no candidate that
\* passed the threshold but was dropped has a strictly higher match_score
\* than a returned one.
C3_TruncatedToBest ==
    Returned =>
        /\ Len(result) <= max_matches
        /\ ~failed =>
             \A i \in RetainedIndexes :
                candidate_companies[i] \notin ReturnedCompanies =>
                   \A j \in 1..Len(result) :
                      ScoreOf(i).match_score <= result[j].match_score

\* A call in which more candidates pass the threshold than the cap allows
\* and the list was cut to the cap, dropping a company.
C3_Witness ==
    /\ Returned /\ ~failed
    /\ Cardinality(RetainedIndexes) > max_matches
    /\ Len(result) = max_matches
    /\ \E i \in RetainedIndexes : candidate_companies[i] \notin ReturnedCompanies

\* C4: no returned candidate carries the id of the source or the name of
\* the source.
C4_SourceExcluded ==
    Returned =>
        \A i \in 1..Len(result) :
           LET c == result[i].candidate_company
           IN /\ ~(c.company_id.k = "num" /\ user_company.company_id.k = "num"
                   /\ c.company_id.n = user_company.company_id.n)
              /\ ~(c.company_name.k = "str" /\ user_company.company_name.k = "str"
                   /\ c.company_name.l = user_company.company_name.l)

\* A call whose candidate list holds the source record itself and another
\* record with the source's name, and which returned some other candidate.
C4_Witness ==
    /\ Returned /\ result # <<>>
    /\ \E i, j \in 1..Len(candidate_companies) :
          /\ candidate_companies[i] = user_company
          /\ candidate_companies[j] # user_company
          /\ candidate_companies[j].isdict
          /\ candidate_companies[j].company_name = user_company.company_name

\* C5: a Match is 'horizontal' exactly when its industry similarity is
\* >= 0.7 and 'vertical' otherwise; 0.7 itself is horizontal and the
\* unknown-industry score 0.5 is vertical.
C5_MatchTypeByIndustry ==
    Returned =>
        \A i \in 1..Len(result) :
           LET m == result[i]
           IN /\ (m.match_type = "horizontal") <=> (10 * m.similarity_factors.industry_similarity >= 7 * AxisOne)
              /\ (m.match_type = "vertical") <=> (10 * m.similarity_factors.industry_similarity < 7 * AxisOne)

\* A call that returned a match at exactly 0.7 and a match at 0.5.
C5_Witness ==
    /\ Returned
    /\ \E i, j \in 1..Len(result) :
          /\ 10 * result[i].similarity_factors.industry_similarity = 7 * AxisOne
          /\ result[i].match_type = "horizontal"
          /\ 2 * result[j].similarity_factors.industry_similarity = AxisOne
          /\ result[j].match_type = "vertical"

\* The weighted sum of a Match's own similarity factors, in tenths of an
\* axis unit, with the horizontal table (0.3, 0.2, 0.2, 0.1, 0.2) or the
\* vertical table (0.1, 0.3, 0.2, 0.1, 0.3).
WeightedSumOf(m) ==
    LET f == m.similarity_factors
    IN IF m.match_type = "horizontal"
       THEN 3 * f.industry_similarity + 2 * f.business_similarity +
            2 * f.geographic_similarity + 1 * f.size_similarity +
            2 * f.strategic_similarity
       ELSE 1 * f.industry_similarity + 3 * f.business_similarity +
            2 * f.geographic_similarity + 1 * f.size_similarity +
            3 * f.strategic_similarity

\* C6: the match_score of every returned Match is min(1.0, weighted sum of
\* the similarity factors stored in that Match, under the weight table of
\* its match_type).
C6_ScoreIsWeightedSum ==
    Returned =>
        \A i \in 1..Len(result) :
           result[i].match_score =
              (IF WeightedSumOf(result[i]) <= 10 * AxisOne
               THEN WeightedSumOf(result[i]) ELSE 10 * AxisOne)

\* A call that returned a horizontal and a vertical match whose business
\* and strategic scores are not the neutral 0.5.
C6_Witness ==
    /\ Returned
    /\ \E i, j \in 1..Len(result) :
          /\ result[i].match_type = "horizontal"
          /\ result[i].similarity_factors.business_similarity \notin {0, 60, AxisOne}
          /\ result[j].match_type = "vertical"
          /\ result[j].similarity_factors.industry_similarity = 24

InUnit(x, one) == 0 <= x /\ x <= one

\* C7: for every scored pair the five axis scores and the match_score lie
\* in [0, 1], also with zero, negative or missing revenue and employees.
C7_ScoresInRange ==
    Returned => \A i \in ScoredIndexes :
       LET f == GetSimilarityFactors(Unfitted, user_company, candidate_companies[i])
       IN /\ InUnit(ScoreOf(i).match_score, ScoreOne)
          /\ ~f.err =>
               /\ InUnit(f.industry_similarity, AxisOne)
               /\ InUnit(f.business_similarity, AxisOne)
               /\ InUnit(f.geographic_similarity, AxisOne)
               /\ InUnit(f.size_similarity, AxisOne)
               /\ InUnit(f.strategic_similarity, AxisOne)

\* A call that scored and returned a candidate with negative revenue, one
\* with zero revenue and no employee count, and one with a negative
\* employee count.
C7_Witness ==
    /\ Returned
    /\ \E i, j, k \in 1..Len(result) :
          /\ result[i].candidate_company.revenue.n < 0
          /\ result[j].candidate_company.revenue = Num(0)
          /\ result[j].candidate_company.employee_count = Absent
          /\ result[k].candidate_company.employee_count.n < 0

\* C8: the scenario of the two freshly extracted records (markets given
\* as the list ['USA'], revenue 1,000,000 against 1,200,000) returns the
\* candidate as a horizontal match with industry similarity 1.0, size
\* similarity (1,000,000/1,200,000 + 1.0)/2 and match_score > 0.3.
C8_FreshPairScenario ==
    (/\ Returned
     /\ user_company = AcmeFresh
     /\ candidate_companies = <<BetaFresh>>
     /\ min_match_score = MIN_MATCH_SCORE)
    => /\ Len(result) = 1
       /\ result[1].candidate_company = BetaFresh
       /\ result[1].similarity_factors.industry_similarity = AxisOne
       /\ result[1].similarity_factors.size_similarity =
             ((1000000 * AxisOne) \div 1200000 + AxisOne) \div 2
       /\ result[1].match_type = "horizontal"
       /\ 10 * result[1].match_score > 3 * ScoreOne

RemoveAt(seq, i) == SubSeq(seq, 1, i - 1) \o SubSeq(seq, i + 1, Len(seq))

RECURSIVE IsSubsequence(_, _)
IsSubsequence(a, b) ==
    IF a = <<>> THEN TRUE
    ELSE IF b = <<>> THEN FALSE
    ELSE IF Head(a) = Head(b) THEN IsSubsequence(Tail(a), Tail(b))
    ELSE IsSubsequence(a, Tail(b))

\* C9: when the scoring of one candidate fails, only that candidate is
\* skipped: the matches returned for the list without it are all returned,
\* in the same relative order, whatever the threshold.
C9_FailureSkipsOnlyThatCandidate ==
    Returned =>
        \A i \in ScoredIndexes :
           ScoreOf(i).match_type = "unknown" =>
              IsSubsequence(
                 FindMatchesResult(Unfitted, user_company, RemoveAt(candidate_companies, i),
                                   min_match_score, max_matches).matches,
                 result)

\* C10: find_matches never lets an exception reach its caller; the call
\* returns a list, and the list is empty when the call as a whole failed.
C10_NeverPropagates ==
    /\ pc # "raised"
    /\ (Returned /\ failed) => result = <<>>

\* A call that failed on a candidate that is not a record, after a
\* candidate that passed the threshold.
C10_Witness ==
    /\ Returned /\ failed
    /\ \E i, j \in 1..Len(candidate_companies) :
          /\ i < j
          /\ i \in RetainedIndexes
          /\ ~candidate_companies[j].isdict

\* ---------------------------------------------------------------------
\* Properties of the normalizer and the scorers
\* ---------------------------------------------------------------------
PairNormalized == step \in {"normalized", "scored"}

PairScored == step = "scored"

IsListOfStrings(v) == v.k = "list" /\ \A i \in 1..Len(v.l) : v.l[i] # NonString

\* A MatchingFeatures record with its eleven fields of the declared types.
WellTyped(f) ==
    /\ ~f.err
    /\ f.company_name.k = "str" /\ f.industry.k = "str" /\ f.business_model.k = "str"
    /\ f.revenue.k = "num" /\ f.employee_count.k = "num"
    /\ IsListOfStrings(f.geographic_markets)
    /\ IsListOfStrings(f.products_services)
    /\ IsListOfStrings(f.technology_stack)
    /\ IsListOfStrings(f.strategic_objectives)
    /\ IsListOfStrings(f.target_customers)
    /\ IsListOfStrings(f.competitive_advantages)

\* C11: the normalizer is total: for every company record, whatever its
\* sub-fields hold, it returns without raising a MatchingFeatures record
\* whose eleven fields are present and of their declared types.
C11_NormalizerTotal ==
    PairNormalized => WellTyped(features1) /\ WellTyped(features2)

AxisNames == {"industry", "business", "geographic", "size", "strategic"}

\* C12: no scorer raises on two feature records: an internal error (a
\* null industry, null markets, a null employee count) gives 0.5 on that
\* axis, the other axes are still scored and the pair gets a match type.
C12_ScorersNeverRaise ==
    (PairScored /\ ~features1.err /\ ~features2.err) =>
        /\ \A a \in AxisNames : axes[a] # NotRun /\ ~axes[a].err
        /\ (features1.industry.k # "str" \/ features2.industry.k # "str")
              => axes.industry.s = AxisOne \div 2
        /\ (features1.employee_count.k # "num" \/ features2.employee_count.k # "num")
              => axes.size.s = AxisOne \div 2
        /\ scored.match_type \in {"horizontal", "vertical"}

\* Spellings of one label that differ in the case of their letters only.
CaseFamilies ==
    { {"Technology", "TECHNOLOGY", "technology"}, {"Software", "software"},
      {"Banking", "banking"}, {"Real Estate", "real estate"} }

\* a and b are non-empty labels, equal or case variants of each other.
CaseVariants(a, b) ==
    /\ a.k = "str" /\ b.k = "str" /\ Len(a.l) = 1 /\ Len(b.l) = 1
    /\ a.l[1] # "" /\ b.l[1] # ""
    /\ \/ a.l = b.l
       \/ \E family \in CaseFamilies : a.l[1] \in family /\ b.l[1] \in family

\* C13: the industry similarity of two records whose industry labels are
\* a label and a case variant of it is exactly 1.0.
C13_IndustryCaseInsensitive ==
    (PairScored /\ ~features1.err /\ ~features2.err
                /\ CaseVariants(features1.industry, features2.industry))
        => axes.industry = Score(AxisOne)

\* A scored pair whose labels are 'Technology' and 'TECHNOLOGY'.
C13_Witness ==
    /\ PairScored
    /\ features1.industry = Str(<<"Technology">>)
    /\ features2.industry = Str(<<"TECHNOLOGY">>)
    /\ axes.industry = Score(AxisOne)

\* The market set of a feature record: each entry lower-cased and trimmed.
TrimmedLower(markets) == {Strip(Lower(markets.l[i])) : i \in 1..Len(markets.l)}

\* s is the score the three rules give for the market sets m1 and m2.
IsGeographicScore(s, m1, m2) ==
    IF m1 = {} \/ m2 = {} THEN 2 * s = AxisOne
    ELSE IF m1 \cap m2 = {} THEN 10 * s = 7 * AxisOne
    ELSE s * Cardinality(m1 \cup m2) = AxisOne * Cardinality(m1 \cap m2)

\* C14: the geographic similarity is |intersection| / |union| of the two
\* lower-cased, trimmed market sets when they intersect, 0.7 when both are
\* non-empty and disjoint, 0.5 when either is empty.
C14_GeographicJaccard ==
    (PairScored /\ axes.geographic # NotRun /\ ~axes.geographic.err) =>
        IsGeographicScore(axes.geographic.s,
                          TrimmedLower(features1.geographic_markets),
                          TrimmedLower(features2.geographic_markets))

\* A scored pair whose market lists ['usa', 'UK'] and ['UK', ' Germany']
\* share one of three markets once lower-cased and trimmed.
C14_Witness ==
    /\ PairScored
    /\ features1.geographic_markets = List(<<"usa", "UK">>)
    /\ features2.geographic_markets = List(<<"UK", " Germany">>)
    /\ 3 * axes.geographic.s = AxisOne

SumOfWeights(w) == w.industry + w.business + w.geographic + w.size + w.strategic

\* The five scorers ran and gave the same score.
AllAxesEqual ==
    /\ \A a \in AxisNames : axes[a] # NotRun /\ ~axes[a].err
    /\ \A a \in AxisNames : axes[a].s = axes.industry.s

\* C15: in both weight tables the weights are non-negative and sum to 1.0
\* (ten tenths), so a pair whose five axis scores all equal s has
\* match_score s.
C15_WeightsSumToOne ==
    /\ \A t \in {"horizontal", "vertical"} :
          /\ SumOfWeights(Weights(t)) = 10
          /\ \A a \in AxisNames : Weights(t)[a] >= 0
    /\ (PairScored /\ AllAxesEqual) => scored.match_score * AxisOne = axes.industry.s * ScoreOne

\* A scored horizontal pair whose five axis scores are all 1.0, the text
\* scores coming from the vectorizer.
C15_Witness ==
    /\ PairScored /\ AllAxesEqual
    /\ axes.industry.s = AxisOne
    /\ scored.match_type = "horizontal"
    /\ company1.business_model # Absent

\* ---------------------------------------------------------------------
\* Properties of a session
\* ---------------------------------------------------------------------
\* C16: for a result list of fewer than 2 matches (0 or 1) the feature
\* importance is the uniform distribution, 0.2 on each of the five axes.
C16_FewMatchesUniform ==
    (pc = "returned" /\ importance # NotComputed /\ Len(result) < 2)
        => importance = UniformImportance

\* C17: find_matches called with an empty candidate list returns the
\* empty list, whatever the source record.
C17_EmptyCandidates ==
    (pc # "ready" /\ candidate_companies = <<>>) => (pc = "returned" /\ result = <<>>)

\* A call with an empty candidate list on an engine whose vectorizer an
\* earlier call had fitted.
C17_Witness ==
    /\ Returned /\ candidate_companies = <<>> /\ result = <<>>
    /\ vocabulary # Unfitted

\* The threshold and the cap the caller of the current call asked for.
AskedMinScore == IF supplied.given THEN supplied.min_score ELSE MIN_MATCH_SCORE
AskedMaxResults == IF supplied.given THEN supplied.max_results ELSE MAX_MATCHES_PER_QUERY

\* C18: a find_matches call applies the min_score and max_results its
\* caller supplied for that call, 0.3 and 50 when the caller supplied
\* none, whatever earlier calls were given.
C18_CallerThresholdsApplied ==
    pc \in {"returned", "raised"} =>
        /\ pc = "returned"
        /\ result = FindMatchesResult(Unfitted, user_company, candidate_companies,
                                      AskedMinScore, AskedMaxResults).matches

\* The match carries the score, the type and the five factors given.
MatchCarries(match, scored_, factors) ==
    /\ match.match_score = scored_.match_score
    /\ match.match_type = scored_.match_type
    /\ ~factors.err
    /\ match.similarity_factors.industry_similarity = factors.industry_similarity
    /\ match.similarity_factors.business_similarity = factors.business_similarity
    /\ match.similarity_factors.geographic_similarity = factors.geographic_similarity
    /\ match.similarity_factors.size_similarity = factors.size_similarity
    /\ match.similarity_factors.strategic_similarity = factors.strategic_similarity

\* The match has the scores an engine that never compared anything
\* computes for its pair alone.
AsOnFreshEngine(match) ==
    MatchCarries(match,
                 CalculateMatchScore(Unfitted, user_company, match.candidate_company),
                 GetSimilarityFactors(Unfitted, user_company, match.candidate_company))

\* C19: the axis scores, match_score and match_type of a pair depend on
\* the two records only: every returned Match carries what a fresh engine
\* computes for its pair alone, and the candidates retained are those a
\* fresh engine retains, whatever the batch, the position and the earlier
\* comparisons of the engine.
C19_PairScoreIndependent ==
    (Returned /\ ~failed) =>
        /\ \A i \in 1..Len(result) : AsOnFreshEngine(result[i])
        /\ Len(result) = Min(max_matches, Cardinality(RetainedIndexes))

\* A call that returned two candidates, at different positions of the
\* batch, whose texts went through the vectorizer one after the other.
C19_Witness ==
    /\ Returned /\ ~failed
    /\ vocabulary # Unfitted
    /\ \E i, j \in 1..Len(result) :
          /\ result[i].candidate_company # result[j].candidate_company
          /\ result[i].similarity_factors.business_similarity # AxisOne \div 2
          /\ result[j].similarity_factors.business_similarity # AxisOne \div 2
          /\ result[i].similarity_factors.strategic_similarity # AxisOne \div 2

\* C20: every Match of a returned list is 'horizontal' or 'vertical';
\* 'unknown' never appears, also with threshold 0 and malformed records.
C20_NoUnknownMatch ==
    Returned => \A i \in 1..Len(result) : result[i].match_type \in {"horizontal", "vertical"}

\* A call with threshold 0 whose list holds a candidate that passed and a
\* malformed candidate, scored (0.0, 'unknown'), which reaches the
\* threshold.
C20_Witness ==
    /\ Returned /\ min_match_score = 0
    /\ \E i, j \in ScoredIndexes :
          /\ i < j
          /\ ScoreOf(i).match_type # "unknown"
          /\ ScoreOf(j).match_type = "unknown"
          /\ Retained(ScoreOf(j).match_score, min_match_score)

\* The two records carry the same id.
ShareId(a, b) ==
    a.company_id.k = "num" /\ b.company_id.k = "num" /\ a.company_id.n = b.company_id.n

\* The two records carry the same name.
ShareName(a, b) ==
    a.company_name.k = "str" /\ b.company_name.k = "str" /\ a.company_name.l = b.company_name.l

\* The candidates of the current call that have neither the id nor the
\* name of the source and whose pair reaches the threshold of the engine.
OtherCompaniesReachingThreshold ==
    {i \in 1..Len(candidate_companies) :
        /\ candidate_companies[i].isdict
        /\ ~ShareId(user_company, candidate_companies[i])
        /\ ~ShareName(user_company, candidate_companies[i])
        /\ CalculateMatchScore(Unfitted, user_company, candidate_companies[i]).match_type # "unknown"
        /\ CalculateMatchScore(Unfitted, user_company, candidate_companies[i]).match_score
              >= min_match_score}

\* C21: the self-match guard skips a candidate only when it has the id or
\* the name of the source: any other candidate, also when neither record
\* has an id field, is scored and is returned when its match_score reaches
\* the threshold.
C21_GuardSkipsOnlySameCompany ==
    (Returned /\ ~failed /\ Len(candidate_companies) <= max_matches) =>
        \A i \in OtherCompaniesReachingThreshold :
           candidate_companies[i] \in ReturnedCompanies

\* The candidates of the matches with the given score, in list order.
RECURSIVE CompaniesWithScore(_, _)
CompaniesWithScore(matches, score) ==
    IF matches = <<>> THEN <<>>
    ELSE IF Head(matches).match_score = score
         THEN <<Head(matches).candidate_company>> \o CompaniesWithScore(Tail(matches), score)
         ELSE CompaniesWithScore(Tail(matches), score)

\* The candidates of the input list that were returned with the given
\* score, in input order.
RECURSIVE ReturnedWithScore(_, _)
ReturnedWithScore(candidates, score) ==
    IF candidates = <<>> THEN <<>>
    ELSE IF \E j \in 1..Len(result) : /\ result[j].candidate_company = Head(candidates)
                                      /\ result[j].match_score = score
         THEN <<Head(candidates)>> \o ReturnedWithScore(Tail(candidates), score)
         ELSE ReturnedWithScore(Tail(candidates), score)

\* C29: the ordering is stable: the returned matches of equal match_score
\* come in the order their candidates had in the input list.
C29_StableOrder ==
    (Returned /\ ~failed /\ Len(candidate_companies) <= max_matches) =>
        \A j \in 1..Len(result) :
           CompaniesWithScore(result, result[j].match_score) =
              ReturnedWithScore(candidate_companies, result[j].match_score)

\* A call that returned two different companies with the same match_score.
C29_Witness ==
    /\ Returned /\ Len(result) >= 2
    /\ \E i, j \in 1..Len(result) :
          /\ i < j
          /\ result[i].match_score = result[j].match_score
          /\ result[i].candidate_company # result[j].candidate_company

\* ---------------------------------------------------------------------
\* Properties of the single scorers and of the normalizer's fields
\* ---------------------------------------------------------------------
\* The related-industry table as the documentation gives it.
DocumentedClusters ==
    { {"technology", "software", "fintech", "artificial intelligence", "saas"},
      {"financial services", "fintech", "banking", "insurance"},
      {"healthcare", "biotech", "pharmaceutical", "medical"},
      {"retail", "e-commerce", "consumer goods", "marketplace"} }

\* The one of the four values the rules give for two industry strings.
DocumentedIndustryScore(label1, label2) ==
    IF label1 = <<>> \/ label2 = <<>> THEN AxisOne \div 2
    ELSE IF Lower(label1[1]) = Lower(label2[1]) THEN AxisOne
    ELSE IF \E cluster \in DocumentedClusters :
                Lower(label1[1]) \in cluster /\ Lower(label2[1]) \in cluster
         THEN (7 * AxisOne) \div 10
    ELSE (2 * AxisOne) \div 10

\* C22: the industry similarity is 0.5 if either industry string is empty,
\* else 1.0 if the strings are equal ignoring case, else 0.7 if one
\* cluster of the table holds both lower-cased labels, else 0.2.
C22_IndustryFourValues ==
    (PairScored /\ axes.industry # NotRun /\ ~axes.industry.err) =>
        axes.industry.s = DocumentedIndustryScore(features1.industry.l, features2.industry.l)

\* A scored pair 'Software' / 'Banking': both related to fintech, in no
\* common cluster.
C22_Witness ==
    /\ PairScored
    /\ features1.industry = Str(<<"Software">>)
    /\ features2.industry = Str(<<"Banking">>)
    /\ axes.industry = Score((2 * AxisOne) \div 10)

\* A revenue or an employee count is available: a number > 0.
Available(v) == v.k = "num" /\ v.n > 0

\* min/max of the two values when both are available, else 0.5.
DocumentedRatio(a, b) ==
    IF Available(a) /\ Available(b)
    THEN (Min(a.n, b.n) * AxisOne) \div Max(a.n, b.n)
    ELSE AxisOne \div 2

\* C23: the size similarity is (r + e) / 2, r the min/max ratio of the
\* revenues when both are > 0 and 0.5 otherwise, e the same for the
\* employee counts, each defaulted on its own (zero, absent or null).
C23_SizeIsMeanOfRatios ==
    (PairScored /\ axes.size # NotRun) =>
        /\ ~axes.size.err
        /\ axes.size.s = (DocumentedRatio(features1.revenue, features2.revenue) +
                          DocumentedRatio(features1.employee_count,
                                          features2.employee_count)) \div 2

\* The record's JSON columns, when it has them as strings, can be decoded.
JsonColumnsUsable(company) ==
    company.financial_metrics.k = "str" =>
        /\ ~JsonLoads(company.financial_metrics.l).err
        /\ company.strategic_objectives.k \in {"str", "absent"}
        /\ company.strategic_objectives.k = "str" => ~JsonLoads(company.strategic_objectives.l).err

\* The markets the documentation gives for a record: the parts of a
\* non-empty comma-joined string, the entries of a list, else none.
DocumentedMarkets(company) ==
    IF company.geographic_markets.k \in {"str", "list"}
    THEN List(company.geographic_markets.l)
    ELSE List(<<>>)

\* C24: the normalizer resolves the markets of both record shapes: the
\* parts of a non-empty comma-joined string, the entries of a list (empty
\* or not), the empty list for an absent or empty field, and it does not
\* fail in any of these cases.
C24_MarketsOfBothShapes ==
    (PairNormalized /\ JsonColumnsUsable(company1)
                    /\ company1.geographic_markets.k \in {"str", "list", "absent"}) =>
        /\ ~features1.err
        /\ features1.geographic_markets = DocumentedMarkets(company1)

RECURSIVE Without(_, _)
Without(chars, dropped) ==
    IF chars = <<>> THEN <<>>
    ELSE IF Head(chars) \in dropped THEN Without(Tail(chars), dropped)
    ELSE <<Head(chars)>> \o Without(Tail(chars), dropped)

RECURSIVE TenTo(_)
TenTo(n) == IF n = 0 THEN 1 ELSE 10 * TenTo(n - 1)

\* The value of a decimal literal times 10^exponent (exponent at least the
\* number of decimals), 0 when the text is no decimal literal.
ScaledDecimal(chars, exponent) ==
    IF ParseFloat(chars).err THEN 0
    ELSE IntOf(Without(chars, {"."})) *
         TenTo(exponent - Cardinality({i \in 1..Len(chars) :
                                          \E d \in 1..i : chars[d] = "." /\ d < i}))

\* The amount the documentation gives for an amount string: '$' and ','
\* removed, the decimal number times 10^6 for 'M', 10^9 for 'B'.
DocumentedAmount(chars) ==
    IF Without(chars, {"$", ","}) = <<>> THEN 0
    ELSE IF Without(chars, {"$", ","})[Len(Without(chars, {"$", ","}))] = "M"
    THEN ScaledDecimal(Without(chars, {"$", ",", "M"}), 6)
    ELSE IF Without(chars, {"$", ","})[Len(Without(chars, {"$", ","}))] = "B"
    THEN ScaledDecimal(Without(chars, {"$", ",", "B"}), 9)
    ELSE ScaledDecimal(Without(chars, {"$", ","}), 0)

\* C25: the revenue of a record in the extracted shape is its direct
\* numeric revenue when present and non-zero, else the amount of
\* revenue_info ('$5M' is 5,000,000, '1.5M' is 1,500,000), 0 when the
\* string cannot be parsed.
C25_RevenueResolution ==
    (PairNormalized /\ ~features1.err /\ company1.financial_metrics.k # "str") =>
        features1.revenue =
           (IF company1.revenue.k = "num" /\ company1.revenue.n # 0 THEN company1.revenue
            ELSE IF company1.revenue_info.k = "dict"
                 THEN Num(DocumentedAmount(company1.revenue_info.l))
            ELSE Num(0))

\* The terms of a document: its words of two or more characters that are
\* no stop words, in lower case.
DocumentTerms(words) ==
    {Lower(words[i]) : i \in {j \in 1..Len(words) :
                                ~IsSpace(words[j]) /\ words[j] # OneLetter
                                /\ Lower(words[j]) \notin StopWords}}

\* The two documents of a text axis could be built (every part a string).
TextsBuilt(text1, text2, sim) == sim # NotRun /\ ~text1.err /\ ~text2.err

\* The three rules as documented: blank gives 0.5, identical gives 1.0, no
\* common term gives 0.0.
DocumentedTextScore(text1, text2, sim) ==
    TextsBuilt(text1, text2, sim) =>
        /\ ~sim.err
        /\ (Blank(text1.words) \/ Blank(text2.words)) => sim.s = AxisOne \div 2
        /\ (~Blank(text1.words) /\ ~Blank(text2.words) /\ text1.words = text2.words)
              => sim.s = AxisOne
        /\ (~Blank(text1.words) /\ ~Blank(text2.words)
              /\ DocumentTerms(text1.words) \cap DocumentTerms(text2.words) = {})
              => sim.s = 0

\* C26 as stated: business similarity is 0.5 when either business document
\* is blank and strategic similarity is 0.5 when either strategic document
\* is blank; two non-blank identical documents score 1.0 and two non-blank
\* documents without a common term score 0.0.
C26_TextScoresAsStated ==
    PairScored =>
        /\ DocumentedTextScore(BusinessText(features1), BusinessText(features2), axes.business)
        /\ DocumentedTextScore(StrategicText(features1), StrategicText(features2), axes.strategic)

\* The rules with the documents that hold no term at all set apart: two
\* non-blank documents none of which has a term score 0.5, identical or not.
TextScoreByTerms(text1, text2, sim) ==
    TextsBuilt(text1, text2, sim) =>
        /\ ~sim.err
        /\ (Blank(text1.words) \/ Blank(text2.words)) => sim.s = AxisOne \div 2
        /\ (~Blank(text1.words) /\ ~Blank(text2.words)) =>
             /\ (DocumentTerms(text1.words) = {} /\ DocumentTerms(text2.words) = {})
                   => sim.s = AxisOne \div 2
             /\ (text1.words = text2.words /\ DocumentTerms(text1.words) # {})
                   => sim.s = AxisOne
             /\ (DocumentTerms(text1.words) \cap DocumentTerms(text2.words) = {}
                   /\ DocumentTerms(text1.words) \cup DocumentTerms(text2.words) # {})
                   => sim.s = 0

\* C26 amended: a text axis is 0.5 when either document is blank, and also
\* when both are non-blank but neither holds a term (only stop words or
\* single characters); otherwise identical documents score 1.0 and
\* documents without a common term score 0.0.
C26_TextScoresByTerms ==
    PairScored =>
        /\ TextScoreByTerms(BusinessText(features1), BusinessText(features2), axes.business)
        /\ TextScoreByTerms(StrategicText(features1), StrategicText(features2), axes.strategic)

\* Two identical non-blank strategic documents made of stop words only,
\* scored 0.5.
C26_Witness ==
    /\ PairScored
    /\ TextsBuilt(StrategicText(features1), StrategicText(features2), axes.strategic)
    /\ ~Blank(StrategicText(features1).words)
    /\ StrategicText(features1).words = StrategicText(features2).words
    /\ DocumentTerms(StrategicText(features1).words) = {}
    /\ axes.strategic = Score(AxisOne \div 2)

\* Every axis of the pair was scored and the pair got a match type.
AllScored(axes_, scored_) ==
    /\ scored_.match_type \in {"horizontal", "vertical"}
    /\ \A a \in AxisNames : axes_[a] # NotRun /\ ~axes_[a].err

\* axes_ belongs to a pair with the same four other scores as the pair in
\* hand and a higher industry similarity.
HigherIndustryOnly(axes_) ==
    /\ \A a \in AxisNames \ {"industry"} : axes_[a].s = axes[a].s
    /\ axes_.industry.s > axes.industry.s

\* The pair of company1 with another record scores at least as high as
\* the pair in hand whenever it differs by a higher industry similarity.
NotBelow(axes_, scored_) ==
    (AllScored(axes_, scored_) /\ HigherIndustryOnly(axes_)) =>
        scored_.match_score >= scored.match_score

NotBelowInSameTable(axes_, scored_) ==
    (AllScored(axes_, scored_) /\ HigherIndustryOnly(axes_)
        /\ scored_.match_type = scored.match_type) =>
        scored_.match_score >= scored.match_score

\* C27 as stated: of two pairs with equal business, geographic, size and
\* strategic scores, the one with the higher industry similarity never has
\* the lower match_score, also across the two weight tables.
C27_MonotoneInIndustry ==
    (PairScored /\ AllScored(axes, scored)) =>
        \A d \in PairRecords :
            NotBelow(AxisScores(Unfitted, features1, ExtractMatchingFeatures(d)),
                     ScoreFeatures(Unfitted, features1, ExtractMatchingFeatures(d)))

\* C27 amended: of two pairs of the same match type (both industry
\* similarities in {0.2, 0.5} or both in {0.7, 1.0}) with equal business,
\* geographic, size and strategic scores, the one with the higher industry
\* similarity never has the lower match_score.
C27_MonotoneWithinTable ==
    (PairScored /\ AllScored(axes, scored)) =>
        \A d \in PairRecords :
            NotBelowInSameTable(AxisScores(Unfitted, features1, ExtractMatchingFeatures(d)),
                                ScoreFeatures(Unfitted, features1, ExtractMatchingFeatures(d)))

HigherInSameTable(axes_, scored_) ==
    /\ AllScored(axes_, scored_) /\ HigherIndustryOnly(axes_)
    /\ scored_.match_type = scored.match_type
    /\ scored_.match_score > scored.match_score

\* A scored pair for which another pair of the same table has the same
\* four other scores and a higher industry similarity.
C27_Witness ==
    /\ PairScored /\ AllScored(axes, scored)
    /\ \E d \in PairRecords :
          HigherInSameTable(AxisScores(Unfitted, features1, ExtractMatchingFeatures(d)),
                            ScoreFeatures(Unfitted, features1, ExtractMatchingFeatures(d)))

\* The score and the type of a pair, without the engine's state.
ScoreAndType(scored_) == <<scored_.match_score, scored_.match_type>>

\* C28: scoring is symmetric: for well-formed records a and b the five
\* axis scores, the match_type and the match_score of (a, b) are those of
\* (b, a).
C28_ScoringSymmetric ==
    (PairScored /\ WellTyped(features1) /\ WellTyped(features2)) =>
        /\ axes = AxisScores(Unfitted, features2, features1)
        /\ ScoreAndType(scored) = ScoreAndType(ScoreFeatures(Unfitted, features2, features1))

\* Two different well-formed records, scored, with different revenues,
\* different markets and different documents.
C28_Witness ==
    /\ PairScored /\ WellTyped(features1) /\ WellTyped(features2)
    /\ AllScored(axes, scored)
    /\ features1.revenue.n > features2.revenue.n /\ features2.revenue.n > 0
    /\ features1.geographic_markets # features2.geographic_markets
    /\ ~Blank(BusinessText(features1).words) /\ ~Blank(BusinessText(features2).words)
    /\ BusinessText(features1).words # BusinessText(features2).words

\* A record in the persisted shape: financial_metrics is a JSON string.
Persisted(company) == company.financial_metrics.k = "str"

\* The features of a persisted record that come from business_features.
PersistedFeatures(company, features) ==
    /\ features.business_model = Str(<<>>)
    /\ features.products_services = List(<<>>)
    /\ features.competitive_advantages = List(<<>>)
    /\ features.technology_stack = List(<<>>)
    /\ features.target_customers = List(<<>>)
    /\ features.revenue = (IF Truthy(Get(company.revenue, Num(0)))
                           THEN company.revenue ELSE Num(0))

\* C30: for a record in the persisted shape the normalizer takes
\* business_model, products_services, competitive_advantages,
\* technology_stack and target_customers as empty and does not consult
\* revenue_info, whatever the record carries; the business similarity of a
\* pair with such a record is 0.5.
C30_PersistedShapeHasNoBusinessText ==
    /\ (PairNormalized /\ Persisted(company1) /\ ~features1.err)
          => PersistedFeatures(company1, features1)
    /\ (PairNormalized /\ Persisted(company2) /\ ~features2.err)
          => PersistedFeatures(company2, features2)
    /\ (PairScored /\ (Persisted(company1) \/ Persisted(company2)) /\ axes.business # NotRun)
          => axes.business = Score(AxisOne \div 2)

\* A persisted record that carries a business model, products and a
\* revenue_info, scored against a record with a business document.
C30_Witness ==
    /\ PairScored /\ Persisted(company1)
    /\ company1.business_model.k = "str" /\ company1.business_model.l # <<>>
    /\ company1.key_products_services.k = "list" /\ company1.key_products_services.l # <<>>
    /\ company1.revenue_info.k = "dict" /\ company1.revenue_info.l # <<>>
    /\ features1.revenue = Num(0)
    /\ ~features2.err /\ ~Blank(BusinessText(features2).words)
    /\ axes.business = Score(AxisOne \div 2)

====
